---- MODULE Spec2Model ----
(***************************************************************************)
(* Business analytics chat (business-agent.py): the conversation           *)
(* controller process_input_enhanced, the analysis step analyze_business,  *)
(* the compiled two-node chat graph and the interactive loop that drives   *)
(* it.  Strings are sequences of one-character strings, so that strip()    *)
(* and lower() are computed rather than assumed.                           *)
(***************************************************************************)
EXTENDS Integers, Sequences, FiniteSets, TLC

\* ------------------------------------------------------------------ bounds
\* Number of inputs the interactive loop reads in one session.
MaxTurns == 3

\* ----------------------------------------------------------------- strings
UpperChars == <<"A","B","C","D","E","F","G","H","I","J","K","L","M",
                "N","O","P","Q","R","S","T","U","V","W","X","Y","Z">>
LowerChars == <<"a","b","c","d","e","f","g","h","i","j","k","l","m",
                "n","o","p","q","r","s","t","u","v","w","x","y","z">>
DigitChars == <<"0","1","2","3","4","5","6","7","8","9">>
Whitespace == {" ", "\t", "\n"}

\* str.lower(), one character
lower_char(c) ==
  IF \E i \in 1..26 : UpperChars[i] = c
  THEN LowerChars[CHOOSE i \in 1..26 : UpperChars[i] = c]
  ELSE c

\* str.lower()
lower(s) == [i \in 1..Len(s) |-> lower_char(s[i])]

\* str.strip(): drops leading and trailing whitespace, keeps inner whitespace
strip(s) ==
  LET keep == {i \in 1..Len(s) : s[i] \notin Whitespace}
  IN  IF keep = {} THEN <<>>
      ELSE LET lo == CHOOSE i \in keep : \A j \in keep : i <= j
               hi == CHOOSE i \in keep : \A j \in keep : i >= j
           IN  SubSeq(s, lo, hi)

\* ----------------------------------------------------------------- dataset
Jan2024(a, b) == <<"2","0","2","4","-","0","1","-",a,b>>

BUSINESS_DATA ==
  (Jan2024("0","1") :> [revenue |-> 8000,  cost |-> 5000, customers |-> 80])  @@
  (Jan2024("0","2") :> [revenue |-> 10000, cost |-> 6000, customers |-> 100]) @@
  (Jan2024("0","3") :> [revenue |-> 7500,  cost |-> 4800, customers |-> 75])  @@
  (Jan2024("0","4") :> [revenue |-> 11000, cost |-> 7000, customers |-> 110]) @@
  (Jan2024("0","5") :> [revenue |-> 9500,  cost |-> 6200, customers |-> 95])  @@
  (Jan2024("0","6") :> [revenue |-> 5000,  cost |-> 7000, customers |-> 50])  @@
  (Jan2024("0","7") :> [revenue |-> 12000, cost |-> 7500, customers |-> 120]) @@
  (Jan2024("0","8") :> [revenue |-> 9000,  cost |-> 5800, customers |-> 90])  @@
  (Jan2024("0","9") :> [revenue |-> 8500,  cost |-> 5500, customers |-> 85])  @@
  (Jan2024("1","0") :> [revenue |-> 10500, cost |-> 6500, customers |-> 105])

\* ------------------------------------------------------------------- dates
IsDigit(c) == \E n \in 1..10 : DigitChars[n] = c
DigitVal(c) == (CHOOSE n \in 1..10 : DigitChars[n] = c) - 1

IsLeap(y) == (y % 4 = 0 /\ y % 100 # 0) \/ y % 400 = 0
DaysIn(y, m) ==
  IF m = 2 THEN (IF IsLeap(y) THEN 29 ELSE 28)
  ELSE IF m \in {4, 6, 9, 11} THEN 30 ELSE 31

\* The fields of a string in the zero-padded form YYYY-MM-DD.
DateFields(s) ==
  [y |-> 1000 * DigitVal(s[1]) + 100 * DigitVal(s[2]) + 10 * DigitVal(s[3]) + DigitVal(s[4]),
   m |-> 10 * DigitVal(s[6]) + DigitVal(s[7]),
   d |-> 10 * DigitVal(s[9]) + DigitVal(s[10])]

\* datetime.strptime(s, "%Y-%m-%d") succeeds (it raises ValueError otherwise).
\* Only the zero-padded form is recognised here; every string the program
\* parses is either a dataset key or the empty string.
strptime_ok(s) ==
  /\ Len(s) = 10
  /\ s[5] = "-" /\ s[8] = "-"
  /\ \A i \in {1, 2, 3, 4, 6, 7, 9, 10} : IsDigit(s[i])
  /\ LET f == DateFields(s)
     IN  f.y >= 1 /\ f.m \in 1..12 /\ f.d \in 1..DaysIn(f.y, f.m)

\* date_obj - timedelta(days=1)
minus_one_day(f) ==
  IF f.d > 1 THEN [f EXCEPT !.d = f.d - 1]
  ELSE IF f.m > 1 THEN [y |-> f.y, m |-> f.m - 1, d |-> DaysIn(f.y, f.m - 1)]
  ELSE [y |-> f.y - 1, m |-> 12, d |-> 31]

\* One decimal digit of n, as a character (p = 1, 10, 100, 1000).
digit_char(n, p) == DigitChars[((n \div p) % 10) + 1]

\* strftime("%Y-%m-%d")
strftime(f) ==
  <<digit_char(f.y, 1000), digit_char(f.y, 100), digit_char(f.y, 10), digit_char(f.y, 1), "-",
    digit_char(f.m, 10), digit_char(f.m, 1), "-",
    digit_char(f.d, 10), digit_char(f.d, 1)>>

\* prev_date = (strptime(s) - timedelta(days=1)).strftime(...)
prev_date(s) == strftime(minus_one_day(DateFields(s)))


\* ----------------------------------------------------------------- numbers
\* Rounded floats are kept as scaled integers: one decimal as tenths, two
\* decimals as hundredths.
\* n / d rounded to the nearest integer, ties to even (d > 0).
RoundDiv(n, d) ==
  LET q == n \div d
      r == n % d
  IN  IF 2 * r < d THEN q
      ELSE IF 2 * r > d THEN q + 1
      ELSE IF q % 2 = 0 THEN q ELSE q + 1

Abs(n) == IF n < 0 THEN -n ELSE n

\* f"{((a - b) / b) * 100:.1f}%": the number in tenths, and the suffix
pct_1f(a, b) == <<RoundDiv(1000 * (a - b), b), "%">>

\* ---------------------------------------------------------------- messages
\* AIMessage(content=...): a new message has no id yet (0).  The text is kept
\* as its origin: written by the oracle ("llm") or a fixed text ("fallback"),
\* and the prompt or fixed text it belongs to.
\* body holds the numbers and wordings a fixed report text is built from.
NoBody ==
  [profit |-> 0, revenue_change |-> <<0, "">>, cost_change |-> <<0, "">>,
   insight |-> "", trend |-> ""]

AIMessage(src, topic) == [id |-> 0, src |-> src, topic |-> topic, body |-> NoBody]

RECURSIVE max_id(_)
max_id(ms) ==
  IF ms = <<>> THEN 0
  ELSE LET r == max_id(Tail(ms)) IN IF Head(ms).id > r THEN Head(ms).id ELSE r

\* langgraph's reducer of the messages channel: every message without an id
\* gets a fresh one; a message whose id is already in the list replaces that
\* entry, any other message is appended.
\* Faulty variant: appends without merging by id.
add_messages_append(left, right) ==
  left \o [i \in 1..Len(right) |-> [right[i] EXCEPT !.id = max_id(left) + i]]

RECURSIVE add_messages(_, _)
add_messages(left, right) ==
  IF right = <<>> THEN left
  ELSE LET m0 == Head(right)
           m  == IF m0.id = 0 THEN [m0 EXCEPT !.id = max_id(left) + 1] ELSE m0
           at == {i \in 1..Len(left) : left[i].id = m.id}
       IN  IF at # {}
           THEN add_messages([i \in 1..Len(left) |-> IF i \in at THEN m ELSE left[i]],
                             Tail(right))
           ELSE add_messages(Append(left, m), Tail(right))

\* ------------------------------------------------------------ oracle (LLM)
\* Outcome of the one llm.invoke of a process_input_enhanced branch.
ProcessOracle == {"ok", "fail"}
\* Outcome of the two llm.invoke calls and the json.loads of analyze_business:
\* both answer and the second parses; both answer and the second does not
\* parse; the first call raises; the second call raises.
AnalysisOracle == {"ok", "malformed", "fail_narrative", "fail_json"}

\* analysis_result = {} of the initial state
NoKeyMetrics ==
  [error |-> "", revenue_change |-> <<0, "">>, cost_change |-> <<0, "">>, profit |-> 0]

EmptyResult ==
  [kind |-> "empty", profit_loss_status |-> "", current_profit |-> 0, alerts |-> <<>>,
   recommendations |-> <<>>, key_metrics |-> NoKeyMetrics]

\* What json.loads can return for an answer of the oracle that parses: the
\* oracle is free in what it writes, so the values are not tied to the data.
LLMJson ==
  { [kind |-> "llm", profit_loss_status |-> "positive", current_profit |-> 1,
     alerts |-> <<"llm alert">>, recommendations |-> <<"llm recommendation">>,
     key_metrics |-> NoKeyMetrics],
    EmptyResult }

\* ----------------------------------------------------------- token sets
Affirmative == {<<"y","e","s">>, <<"y">>, <<"y","e","a","h">>, <<"s","u","r","e">>}
Negative    == {<<"n","o">>, <<"n">>, <<"n","o","p","e">>}
ExitTokens  == {<<"e","x","i","t">>, <<"q","u","i","t">>, <<"q">>}
SaveToken   == <<"s","a","v","e">>

\* --------------------------------------------------------------- the state
\* State(messages=[], user_input="", stage="greeting", selected_date="",
\*       analysis_result={})
InitialState ==
  [messages |-> <<>>, user_input |-> <<>>, stage |-> "greeting",
   selected_date |-> <<>>, analysis_result |-> EmptyResult]

\* A node's returned dict is merged into the channels: messages through its
\* reducer add_messages, every other returned key by overwriting.
ApplyUpdate(st, upd) ==
  [k \in DOMAIN st |->
     IF k \in DOMAIN upd
     THEN (IF k = "messages" THEN add_messages(st.messages, upd.messages) ELSE upd[k])
     ELSE st[k]]

\* The reply of one branch: the oracle's text, or the fixed text when the
\* call raised.
Reply(o, topic) == <<AIMessage(IF o = "ok" THEN "llm" ELSE "fallback", topic)>>

\* generate_greeting
\* Faulty variant: the except branch leaves the stage out.
generate_greeting_nostage(st, o) ==
  IF o = "ok"
  THEN [messages |-> Reply(o, "greeting"), stage |-> "date_selection"]
  ELSE [messages |-> Reply(o, "greeting")]

generate_greeting(st, o) ==
  [messages |-> Reply(o, "greeting"), stage |-> "date_selection"]

\* process_input_enhanced, branch stage == "date_selection"
\* Faulty variants: no previous-day check; selected_date not returned;
\* selected_date returned with the previous-day error.
on_date_selection_nocheck(user_input, o) ==
  IF user_input \in DOMAIN BUSINESS_DATA
  THEN [messages |-> Reply(o, "confirm"), selected_date |-> user_input,
        stage |-> "confirm_analysis"]
  ELSE [messages |-> Reply(o, "invalid_date"), stage |-> "date_selection"]

on_date_selection_unset(user_input, o) ==
  IF user_input \in DOMAIN BUSINESS_DATA THEN
    IF prev_date(user_input) \notin DOMAIN BUSINESS_DATA
    THEN [messages |-> Reply(o, "no_previous_day"), stage |-> "date_selection"]
    ELSE [messages |-> Reply(o, "confirm"), stage |-> "confirm_analysis"]
  ELSE [messages |-> Reply(o, "invalid_date"), stage |-> "date_selection"]

on_date_selection_keep(user_input, o) ==
  IF user_input \in DOMAIN BUSINESS_DATA THEN
    IF prev_date(user_input) \notin DOMAIN BUSINESS_DATA
    THEN [messages |-> Reply(o, "no_previous_day"), selected_date |-> user_input,
          stage |-> "date_selection"]
    ELSE [messages |-> Reply(o, "confirm"), selected_date |-> user_input,
          stage |-> "confirm_analysis"]
  ELSE [messages |-> Reply(o, "invalid_date"), stage |-> "date_selection"]

on_date_selection(user_input, o) ==
  IF user_input \in DOMAIN BUSINESS_DATA THEN
    IF prev_date(user_input) \notin DOMAIN BUSINESS_DATA
    THEN [messages |-> Reply(o, "no_previous_day"), stage |-> "date_selection"]
    ELSE [messages |-> Reply(o, "confirm"), selected_date |-> user_input,
          stage |-> "confirm_analysis"]
  ELSE [messages |-> Reply(o, "invalid_date"), stage |-> "date_selection"]

\* process_input_enhanced, branch stage == "confirm_analysis"
\* Faulty variants: affirmative by first letter; selected_date not cleared;
\* an affirmative input goes to complete without the analysis.
on_confirm_analysis_skip(user_input, o) ==
  IF lower(user_input) \in Affirmative
  THEN [messages |-> Reply(o, "start"), stage |-> "complete"]
  ELSE IF lower(user_input) \in Negative
  THEN [messages |-> Reply(o, "back"), stage |-> "date_selection",
        selected_date |-> <<>>]
  ELSE [messages |-> Reply(o, "clarify_confirm"), stage |-> "confirm_analysis"]

on_confirm_analysis_prefix(user_input, o) ==
  IF user_input # <<>> /\ lower(user_input)[1] = "y"
  THEN [messages |-> Reply(o, "start"), stage |-> "analysis"]
  ELSE IF lower(user_input) \in Negative
  THEN [messages |-> Reply(o, "back"), stage |-> "date_selection",
        selected_date |-> <<>>]
  ELSE [messages |-> Reply(o, "clarify_confirm"), stage |-> "confirm_analysis"]

on_confirm_analysis_keep(user_input, o) ==
  IF lower(user_input) \in Affirmative
  THEN [messages |-> Reply(o, "start"), stage |-> "analysis"]
  ELSE IF lower(user_input) \in Negative
  THEN [messages |-> Reply(o, "back"), stage |-> "date_selection"]
  ELSE [messages |-> Reply(o, "clarify_confirm"), stage |-> "confirm_analysis"]

on_confirm_analysis(user_input, o) ==
  IF lower(user_input) \in Affirmative
  THEN [messages |-> Reply(o, "start"), stage |-> "analysis"]
  ELSE IF lower(user_input) \in Negative
  THEN [messages |-> Reply(o, "back"), stage |-> "date_selection",
        selected_date |-> <<>>]
  ELSE [messages |-> Reply(o, "clarify_confirm"), stage |-> "confirm_analysis"]

\* process_input_enhanced, branch stage == "complete"
\* Faulty variants: affirmative re-enters analysis; selected_date not cleared;
\* an input is affirmative by its first letter.
on_complete_rerun(user_input, o) ==
  IF lower(user_input) \in Affirmative
  THEN [messages |-> Reply(o, "new"), stage |-> "analysis"]
  ELSE IF lower(user_input) \in Negative
  THEN [messages |-> Reply(o, "goodbye"), stage |-> "end"]
  ELSE [messages |-> Reply(o, "clarify_complete"), stage |-> "complete"]

on_complete_keep(user_input, o) ==
  IF lower(user_input) \in Affirmative
  THEN [messages |-> Reply(o, "new"), stage |-> "date_selection"]
  ELSE IF lower(user_input) \in Negative
  THEN [messages |-> Reply(o, "goodbye"), stage |-> "end"]
  ELSE [messages |-> Reply(o, "clarify_complete"), stage |-> "complete"]

on_complete_prefix(user_input, o) ==
  IF user_input # <<>> /\ lower(user_input)[1] = "y"
  THEN [messages |-> Reply(o, "new"), stage |-> "date_selection",
        selected_date |-> <<>>]
  ELSE IF lower(user_input) \in Negative
  THEN [messages |-> Reply(o, "goodbye"), stage |-> "end"]
  ELSE [messages |-> Reply(o, "clarify_complete"), stage |-> "complete"]

on_complete(user_input, o) ==
  IF lower(user_input) \in Affirmative
  THEN [messages |-> Reply(o, "new"), stage |-> "date_selection",
        selected_date |-> <<>>]
  ELSE IF lower(user_input) \in Negative
  THEN [messages |-> Reply(o, "goodbye"), stage |-> "end"]
  ELSE [messages |-> Reply(o, "clarify_complete"), stage |-> "complete"]

\* process_input_enhanced: the dict the node returns
process_input_enhanced(st, o) ==
  LET user_input == strip(st.user_input)
      stage      == st.stage
  IN  IF stage = "greeting" THEN generate_greeting(st, o)
      ELSE IF stage = "date_selection" THEN on_date_selection(user_input, o)
      ELSE IF stage = "confirm_analysis" THEN on_confirm_analysis(user_input, o)
      ELSE IF stage = "complete" THEN on_complete(user_input, o)
      ELSE st

\* The fixed text of a branch of process_input.  A text is told by its topic;
\* the fixed texts of process_input_enhanced's except blocks are the same
\* literals, and distinct literals have distinct topics.
Scripted(topic) == <<AIMessage("fallback", topic)>>

\* process_input, the controller without oracle calls: the dict it returns
process_input(st) ==
  LET user_input == strip(st.user_input)
      stage      == st.stage
  IN  IF stage = "greeting"
      THEN [messages |-> Scripted("greeting"), stage |-> "date_selection"]
      ELSE IF stage = "date_selection"
      THEN IF user_input \in DOMAIN BUSINESS_DATA
           THEN IF prev_date(user_input) \notin DOMAIN BUSINESS_DATA
                THEN [messages |-> Scripted("no_previous_day"),
                      stage |-> "date_selection"]
                ELSE [messages |-> Scripted("confirm"), selected_date |-> user_input,
                      stage |-> "confirm_analysis"]
           ELSE [messages |-> Scripted("invalid_date"), stage |-> "date_selection"]
      ELSE IF stage = "confirm_analysis"
      THEN IF lower(user_input) \in Affirmative
           THEN [messages |-> Scripted("start"), stage |-> "analysis"]
           ELSE IF lower(user_input) \in Negative
           THEN [messages |-> Scripted("back"), stage |-> "date_selection",
                 selected_date |-> <<>>]
           ELSE [messages |-> Scripted("clarify_confirm"), stage |-> "confirm_analysis"]
      ELSE IF stage = "complete"
      THEN IF lower(user_input) \in Affirmative
           THEN [messages |-> Scripted("new"), stage |-> "date_selection",
                 selected_date |-> <<>>]
           ELSE IF lower(user_input) \in Negative
           THEN [messages |-> Scripted("goodbye"), stage |-> "end"]
           ELSE [messages |-> Scripted("clarify_complete"), stage |-> "complete"]
      ELSE st

\* process_input_enhanced calls llm.invoke: once in every branch of the four
\* stages it handles, not at all when it returns the state as it is.
calls_oracle(st) ==
  st.stage \in {"greeting", "date_selection", "confirm_analysis", "complete"}

\* process_input_enhanced raises: the only unguarded call is strptime on an
\* input that is a dataset key.
process_input_raises(st) ==
  /\ st.stage = "date_selection"
  /\ strip(st.user_input) \in DOMAIN BUSINESS_DATA
  /\ ~strptime_ok(strip(st.user_input))

\* analyze_business raises: strptime of selected_date (ValueError), the two
\* lookups in BUSINESS_DATA (KeyError), and the divisions of the fallback,
\* which run inside the except block (ZeroDivisionError).
analyze_raises(st, ao) ==
  /\ st.stage = "analysis"
  /\ \/ ~strptime_ok(st.selected_date)
     \/ st.selected_date \notin DOMAIN BUSINESS_DATA
     \/ prev_date(st.selected_date) \notin DOMAIN BUSINESS_DATA
     \/ /\ ao \in {"fail_narrative", "fail_json"}
        /\ LET previous == BUSINESS_DATA[prev_date(st.selected_date)]
           IN  previous.revenue = 0 \/ previous.cost = 0

\* analyze_business, the fallback JSON when json.loads fails
\* Faulty variant: the status forgets the cost.
parse_fallback_nocost(current) ==
  LET current_profit == current.revenue - current.cost
  IN  [kind |-> "parse_fallback",
       profit_loss_status |-> IF current.revenue > 0 THEN "positive" ELSE "negative",
       current_profit |-> current_profit,
       alerts |-> <<"Unable to parse LLM JSON response">>,
       recommendations |-> <<"Review analysis manually">>,
       key_metrics |-> [NoKeyMetrics EXCEPT !.error = "JSON parsing failed"]]

parse_fallback(current) ==
  LET current_profit == current.revenue - current.cost
  IN  [kind |-> "parse_fallback",
       profit_loss_status |-> IF current_profit > 0 THEN "positive" ELSE "negative",
       current_profit |-> current_profit,
       alerts |-> <<"Unable to parse LLM JSON response">>,
       recommendations |-> <<"Review analysis manually">>,
       key_metrics |-> [NoKeyMetrics EXCEPT !.error = "JSON parsing failed"]]

\* analyze_business, the except block: the fixed report text (its numbers and
\* wordings) and the fallback JSON.  The previous day's revenue is positive,
\* so the sign of revenue_change is the sign of the difference of the revenues.
\* Faulty variant: the changes are taken relative to the current day.
llm_fallback_current(current, previous) ==
  LET current_profit == current.revenue - current.cost
      revenue_change ==
        <<RoundDiv(1000 * (current.revenue - previous.revenue), current.revenue), "%">>
      cost_change ==
        <<RoundDiv(1000 * (current.cost - previous.cost), current.cost), "%">>
  IN  [body |-> [profit |-> current_profit,
                 revenue_change |-> revenue_change, cost_change |-> cost_change,
                 insight |-> IF current_profit > 0 THEN "Profitable day"
                             ELSE "Loss incurred",
                 trend |-> IF current.revenue > previous.revenue THEN "increased"
                           ELSE "decreased"],
       json |-> [kind |-> "unavailable_fallback",
                 profit_loss_status |-> IF current_profit > 0 THEN "positive"
                                        ELSE "negative",
                 current_profit |-> current_profit,
                 alerts |-> <<"LLM unavailable - basic analysis provided">>,
                 recommendations |-> <<"Review detailed financials",
                                       "Check operational efficiency">>,
                 key_metrics |-> [error |-> "", revenue_change |-> revenue_change,
                                  cost_change |-> cost_change,
                                  profit |-> current_profit]]]

llm_fallback(current, previous) ==
  LET current_profit == current.revenue - current.cost
      revenue_change == pct_1f(current.revenue, previous.revenue)
      cost_change    == pct_1f(current.cost, previous.cost)
  IN  [body |-> [profit |-> current_profit,
                 revenue_change |-> revenue_change, cost_change |-> cost_change,
                 insight |-> IF current_profit > 0 THEN "Profitable day"
                             ELSE "Loss incurred",
                 trend |-> IF current.revenue > previous.revenue THEN "increased"
                           ELSE "decreased"],
       json |-> [kind |-> "unavailable_fallback",
                 profit_loss_status |-> IF current_profit > 0 THEN "positive"
                                        ELSE "negative",
                 current_profit |-> current_profit,
                 alerts |-> <<"LLM unavailable - basic analysis provided">>,
                 recommendations |-> <<"Review detailed financials",
                                       "Check operational efficiency">>,
                 key_metrics |-> [error |-> "", revenue_change |-> revenue_change,
                                  cost_change |-> cost_change,
                                  profit |-> current_profit]]]

\* analyze_business: the dict the node returns (when it does not raise).  The
\* report text also prints json_output, which is analysis_result.
analyze_business(st, ao, js) ==
  IF st.stage # "analysis" THEN st
  ELSE
    LET current  == BUSINESS_DATA[st.selected_date]
        previous == BUSINESS_DATA[prev_date(st.selected_date)]
        failed   == ao \in {"fail_narrative", "fail_json"}
        json_output ==
          IF ao = "ok" THEN js
          ELSE IF ao = "malformed" THEN parse_fallback(current)
          ELSE llm_fallback(current, previous).json
        report ==
          IF failed
          THEN [AIMessage("fallback", "report")
                  EXCEPT !.body = llm_fallback(current, previous).body]
          ELSE AIMessage("llm", "report")
    IN  [messages |-> <<report>>, stage |-> "complete",
         analysis_result |-> json_output]

\* route_next, the conditional edge after process_input
\* Faulty variant: never routes to analyze.
route_next_end(st) == "END"

route_next(st) == IF st.stage = "analysis" THEN "analyze" ELSE "END"

\* ======================================================= main.py pipeline
\* Numbers that main.py holds as floats rounded to two decimals are kept as
\* integers in hundredths (13.33 is 1333); revenue, cost, customers,
\* marketing_cost and the profits are the integers of the records.

\* round((n / d) * 100, 2), in hundredths
PctHundredths(n, d) == RoundDiv(10000 * n, d)

\* The records the pipeline is run on.
RevenueValues   == {0, 80, 88, 90, 100, 120}
CostValues      == {0, 80, 115}
CustomerValues  == {0, 2, 3}
MarketingValues == {0, 100, 200}
Records ==
  [revenue : RevenueValues, cost : CostValues, customers : CustomerValues,
   marketing_cost : MarketingValues]

\* {} as today_data / yesterday_data, metrics and final_report of the initial
\* state of run_business_analysis
NoData == [revenue |-> 0, cost |-> 0, customers |-> 0, marketing_cost |-> 0]
NoMetrics ==
  [today_profit |-> 0, yesterday_profit |-> 0, today_cac |-> 0, yesterday_cac |-> 0,
   revenue_change |-> 0, cost_change |-> 0, profit_change |-> 0, cac_change |-> 0,
   customer_growth |-> 0, today_roi |-> 0, yesterday_roi |-> 0]
NoReport ==
  [business_summary |-> [date |-> "", profit_loss_status |-> "", total_profit |-> 0,
                         revenue |-> 0, cost |-> 0, customers |-> 0],
   key_metrics |-> [cac_today |-> 0, roi_today |-> 0, revenue_change |-> <<0, "">>,
                    cost_change |-> <<0, "">>, profit_change |-> <<0, "">>,
                    customer_growth |-> <<0, "">>],
   alerts |-> <<>>, recommendations |-> <<>>, action_priority |-> ""]

\* initial_state of run_business_analysis
InitialBusinessState ==
  [today_data |-> NoData, yesterday_data |-> NoData, metrics |-> NoMetrics,
   profit_status |-> "", alerts |-> <<>>, recommendations |-> <<>>,
   final_report |-> NoReport]

\* input_node
input_node(st) ==
  [st EXCEPT
     !.today_data = [revenue |-> 12000, cost |-> 8000, customers |-> 150,
                     marketing_cost |-> 2000],
     !.yesterday_data = [revenue |-> 10000, cost |-> 7500, customers |-> 120,
                         marketing_cost |-> 1800]]

\* processing_node raises ZeroDivisionError: the divisions of revenue_change,
\* cost_change and customer_growth have no guard.
processing_raises(st) ==
  \/ st.yesterday_data.revenue = 0
  \/ st.yesterday_data.cost = 0
  \/ st.yesterday_data.customers = 0

\* today_cac / yesterday_cac of processing_node, rounded, in hundredths
cac_of(rec) ==
  IF rec.customers > 0 THEN RoundDiv(100 * rec.marketing_cost, rec.customers) ELSE 0

\* cac_change of processing_node, rounded, in hundredths: the change of the
\* unrounded CAC values, 0 unless yesterday's CAC is positive
cac_change_of(today, yesterday) ==
  IF yesterday.customers > 0 /\ yesterday.marketing_cost > 0
  THEN IF today.customers > 0
       THEN PctHundredths(today.marketing_cost * yesterday.customers
                            - yesterday.marketing_cost * today.customers,
                          yesterday.marketing_cost * today.customers)
       ELSE -10000
  ELSE 0

\* profit_change of processing_node, rounded, in hundredths
\* Faulty variant: the denominator is yesterday's profit with its sign.
profit_change_of_signed(today_profit, yesterday_profit) ==
  IF yesterday_profit > 0
  THEN PctHundredths(today_profit - yesterday_profit, yesterday_profit)
  ELSE IF yesterday_profit < 0
  THEN PctHundredths(yesterday_profit - today_profit, -yesterday_profit)
  ELSE 0

profit_change_of(today_profit, yesterday_profit) ==
  IF yesterday_profit # 0
  THEN PctHundredths(today_profit - yesterday_profit, Abs(yesterday_profit))
  ELSE 0

\* today_roi / yesterday_roi of processing_node, rounded, in hundredths
\* Faulty variants: the profit is taken over the revenue; the revenue, not
\* the profit, is taken over the cost.
roi_of_gross(rec) ==
  IF rec.cost > 0 THEN PctHundredths(rec.revenue, rec.cost) ELSE 0

roi_of_margin(rec) ==
  IF rec.revenue > 0 THEN PctHundredths(rec.revenue - rec.cost, rec.revenue) ELSE 0

roi_of(rec) ==
  IF rec.cost > 0 THEN PctHundredths(rec.revenue - rec.cost, rec.cost) ELSE 0

\* processing_node (when it does not raise)
processing_node(st) ==
  LET today            == st.today_data
      yesterday        == st.yesterday_data
      today_profit     == today.revenue - today.cost
      yesterday_profit == yesterday.revenue - yesterday.cost
      metrics ==
        [today_profit     |-> today_profit,
         yesterday_profit |-> yesterday_profit,
         today_cac        |-> cac_of(today),
         yesterday_cac    |-> cac_of(yesterday),
         revenue_change   |-> PctHundredths(today.revenue - yesterday.revenue,
                                            yesterday.revenue),
         cost_change      |-> PctHundredths(today.cost - yesterday.cost, yesterday.cost),
         profit_change    |-> profit_change_of(today_profit, yesterday_profit),
         cac_change       |-> cac_change_of(today, yesterday),
         customer_growth  |-> PctHundredths(today.customers - yesterday.customers,
                                            yesterday.customers),
         today_roi        |-> roi_of(today),
         yesterday_roi    |-> roi_of(yesterday)]
  IN  [st EXCEPT !.metrics = metrics,
                 !.profit_status = IF today_profit > 0 THEN "positive" ELSE "negative"]

\* The alert list of analysis_node; each warning is kept as its tag.
\* Faulty variants: the cost warning without the test of revenue growth; the
\* CAC level tested independently of the CAC growth; the two urgent warnings
\* put first.
alerts_of_anycost(metrics) ==
  (IF metrics.today_profit <= 0 THEN <<"CRITICAL">> ELSE <<>>) \o
  (IF metrics.cac_change > 2000 THEN <<"CAC_GROWTH">>
   ELSE IF metrics.today_cac > 5000 THEN <<"CAC_LEVEL">> ELSE <<>>) \o
  (IF metrics.cost_change > metrics.revenue_change
   THEN <<"COST_OUTPACING">> ELSE <<>>) \o
  (IF metrics.revenue_change < -1000 THEN <<"REVENUE_DROP">> ELSE <<>>) \o
  (IF metrics.today_roi < 1000 THEN <<"LOW_ROI">> ELSE <<>>)

alerts_of_both(metrics) ==
  (IF metrics.today_profit <= 0 THEN <<"CRITICAL">> ELSE <<>>) \o
  (IF metrics.cac_change > 2000 THEN <<"CAC_GROWTH">> ELSE <<>>) \o
  (IF metrics.today_cac > 5000 THEN <<"CAC_LEVEL">> ELSE <<>>) \o
  (IF metrics.cost_change > metrics.revenue_change /\ metrics.revenue_change > 0
   THEN <<"COST_OUTPACING">> ELSE <<>>) \o
  (IF metrics.revenue_change < -1000 THEN <<"REVENUE_DROP">> ELSE <<>>) \o
  (IF metrics.today_roi < 1000 THEN <<"LOW_ROI">> ELSE <<>>)

alerts_of_severity(metrics) ==
  (IF metrics.today_profit <= 0 THEN <<"CRITICAL">> ELSE <<>>) \o
  (IF metrics.revenue_change < -1000 THEN <<"REVENUE_DROP">> ELSE <<>>) \o
  (IF metrics.cac_change > 2000 THEN <<"CAC_GROWTH">>
   ELSE IF metrics.today_cac > 5000 THEN <<"CAC_LEVEL">> ELSE <<>>) \o
  (IF metrics.cost_change > metrics.revenue_change /\ metrics.revenue_change > 0
   THEN <<"COST_OUTPACING">> ELSE <<>>) \o
  (IF metrics.today_roi < 1000 THEN <<"LOW_ROI">> ELSE <<>>)

alerts_of(metrics) ==
  (IF metrics.today_profit <= 0 THEN <<"CRITICAL">> ELSE <<>>) \o
  (IF metrics.cac_change > 2000 THEN <<"CAC_GROWTH">>
   ELSE IF metrics.today_cac > 5000 THEN <<"CAC_LEVEL">> ELSE <<>>) \o
  (IF metrics.cost_change > metrics.revenue_change /\ metrics.revenue_change > 0
   THEN <<"COST_OUTPACING">> ELSE <<>>) \o
  (IF metrics.revenue_change < -1000 THEN <<"REVENUE_DROP">> ELSE <<>>) \o
  (IF metrics.today_roi < 1000 THEN <<"LOW_ROI">> ELSE <<>>)

\* analysis_node
analysis_node(st) == [st EXCEPT !.alerts = alerts_of(st.metrics)]

\* Outcome of the llm.invoke of recommendation_node: it raises; its text has
\* two or more list-like lines; fewer than two; it is empty.
RecOracle == {"fail", "list", "text", "empty"}

\* recommendation_node
recommendation_node(st, o) ==
  LET metrics == st.metrics
      recommendations ==
        IF o = "fail"
        THEN <<"Error connecting to LLM - using baseline recommendations",
               "Review and control operational costs",
               "Analyze marketing channel performance",
               "Optimize product pricing strategy">> \o
             (IF metrics.today_profit <= 0
              THEN <<"URGENT: Reduce unnecessary expenses">> ELSE <<>>) \o
             (IF metrics.cac_change > 2000
              THEN <<"Review and optimize marketing campaigns">> ELSE <<>>) \o
             (IF metrics.revenue_change > 1500
              THEN <<"Increase marketing budget to leverage growth momentum">>
              ELSE <<>>)
        ELSE IF o = "list" THEN <<"1. llm line", "2. llm line">>
        ELSE IF o = "text" THEN <<"llm text">>
        ELSE <<"">>
  IN  [st EXCEPT !.recommendations = recommendations]

\* action_priority of output_node
\* Faulty variants: the alert list is looked at first; a profit of 0 is not a
\* loss.
action_priority_of_strict(today_profit, alerts) ==
  IF today_profit < 0 THEN "high"
  ELSE IF Len(alerts) > 0 THEN "medium" ELSE "low"

action_priority_of_alerts_first(today_profit, alerts) ==
  IF Len(alerts) > 0 THEN "medium"
  ELSE IF today_profit <= 0 THEN "high" ELSE "low"

action_priority_of(today_profit, alerts) ==
  IF today_profit <= 0 THEN "high"
  ELSE IF Len(alerts) > 0 THEN "medium" ELSE "low"

\* output_node; f"{x}%" is kept as the pair of the number and the suffix
output_node(st) ==
  [st EXCEPT !.final_report =
     [business_summary |->
        [date |-> "today", profit_loss_status |-> st.profit_status,
         total_profit |-> st.metrics.today_profit,
         revenue |-> st.today_data.revenue, cost |-> st.today_data.cost,
         customers |-> st.today_data.customers],
      key_metrics |->
        [cac_today |-> st.metrics.today_cac, roi_today |-> st.metrics.today_roi,
         revenue_change  |-> <<st.metrics.revenue_change, "%">>,
         cost_change     |-> <<st.metrics.cost_change, "%">>,
         profit_change   |-> <<st.metrics.profit_change, "%">>,
         customer_growth |-> <<st.metrics.customer_growth, "%">>],
      alerts |-> st.alerts,
      recommendations |-> st.recommendations,
      action_priority |-> action_priority_of(st.metrics.today_profit, st.alerts)]]

\* -------------------------------------------------------------------- JSON
\* A JSON-serializable Python value as a tree.  The content of a str is a
\* sequence of pieces: a character, or a run of characters that json writes
\* as they are.  A float rounded to two decimals is kept in hundredths.  A
\* dict is the sequence of its (key, value) pairs in insertion order.
JStr(content) == [t |-> "str", c |-> content]
JInt(n)       == [t |-> "int", c |-> n]
JFloat(h)     == [t |-> "float", c |-> h]
JArr(items)   == [t |-> "arr", c |-> items]
JObj(members) == [t |-> "obj", c |-> members]
JError        == [t |-> "error", c |-> <<>>]

str_content(s) == IF s = "" THEN <<>> ELSE <<s>>

\* str(n) of an int
RECURSIVE nat_chars(_)
nat_chars(n) ==
  IF n < 10 THEN <<DigitChars[n + 1]>>
  ELSE nat_chars(n \div 10) \o <<DigitChars[(n % 10) + 1]>>

int_chars(n) == IF n < 0 THEN <<"-">> \o nat_chars(-n) ELSE nat_chars(n)

\* repr of a float with at most two decimals: at least one digit after the
\* point and no trailing zero behind it
float_chars(h) ==
  LET a == IF h < 0 THEN -h ELSE h
      f == a % 100
  IN  (IF h < 0 THEN <<"-">> ELSE <<>>) \o nat_chars(a \div 100) \o <<".">> \o
      (IF f % 10 = 0 THEN <<DigitChars[(f \div 10) + 1]>>
       ELSE <<DigitChars[(f \div 10) + 1], DigitChars[(f % 10) + 1]>>)

\* json.dumps, the escapes of a str
\* Faulty variant: the quote is written as it is.
escape_piece_raw(c) ==
  IF c = "\\" THEN <<"\\", "\\">>
  ELSE IF c = "\n" THEN <<"\\", "n">>
  ELSE <<c>>

escape_piece(c) ==
  IF c = "\"" THEN <<"\\", "\"">>
  ELSE IF c = "\\" THEN <<"\\", "\\">>
  ELSE IF c = "\n" THEN <<"\\", "n">>
  ELSE <<c>>

RECURSIVE escape(_)
escape(content) ==
  IF content = <<>> THEN <<>>
  ELSE escape_piece(Head(content)) \o escape(Tail(content))

dumps_str(content) == <<"\"">> \o escape(content) \o <<"\"">>

\* json.dumps(indent=2): the line break before an item at a nesting depth
RECURSIVE spaces(_)
spaces(n) == IF n = 0 THEN <<>> ELSE <<" ">> \o spaces(n - 1)

newline_indent(depth) == <<"\n">> \o spaces(2 * depth)

\* json.dumps(value, indent=2), as the sequence of the characters written
RECURSIVE dumps_value(_, _)
RECURSIVE dumps_items(_, _, _)
RECURSIVE dumps_members(_, _, _)
dumps_items(items, k, depth) ==
  IF k > Len(items) THEN <<>>
  ELSE (IF k > 1 THEN <<",">> ELSE <<>>) \o newline_indent(depth)
         \o dumps_value(items[k], depth) \o dumps_items(items, k + 1, depth)

dumps_members(members, k, depth) ==
  IF k > Len(members) THEN <<>>
  ELSE (IF k > 1 THEN <<",">> ELSE <<>>) \o newline_indent(depth)
         \o dumps_str(members[k][1]) \o <<":", " ">>
         \o dumps_value(members[k][2], depth) \o dumps_members(members, k + 1, depth)

dumps_value(v, depth) ==
  CASE v.t = "str"   -> dumps_str(v.c)
    [] v.t = "int"   -> int_chars(v.c)
    [] v.t = "float" -> float_chars(v.c)
    [] v.t = "arr"   ->
         IF v.c = <<>> THEN <<"[", "]">>
         ELSE <<"[">> \o dumps_items(v.c, 1, depth + 1) \o newline_indent(depth) \o <<"]">>
    [] v.t = "obj"   ->
         IF v.c = <<>> THEN <<"{", "}">>
         ELSE <<"{">> \o dumps_members(v.c, 1, depth + 1) \o newline_indent(depth) \o <<"}">>

dumps(v) == dumps_value(v, 0)

\* json.loads: the character at a position, a mark behind the end
At(s, i) == IF i \in 1..Len(s) THEN s[i] ELSE "<end>"

Parsed(v, i) == [v |-> v, i |-> i]
Failed(s)    == [v |-> JError, i |-> Len(s) + 1]

RECURSIVE skip_whitespace(_, _)
skip_whitespace(s, i) ==
  IF At(s, i) \in {" ", "\n", "\t"} THEN skip_whitespace(s, i + 1) ELSE i

\* the content of a str from position i, behind the opening quote
RECURSIVE loads_str(_, _, _)
loads_str(s, i, acc) ==
  LET c == At(s, i)
      e == At(s, i + 1)
  IN  IF c = "<end>" \/ c = "\n" THEN Failed(s)
      ELSE IF c = "\"" THEN Parsed(JStr(acc), i + 1)
      ELSE IF c = "\\"
      THEN IF e = "n" THEN loads_str(s, i + 2, Append(acc, "\n"))
           ELSE IF e = "\"" \/ e = "\\" THEN loads_str(s, i + 2, Append(acc, e))
           ELSE Failed(s)
      ELSE loads_str(s, i + 1, Append(acc, c))

\* a run of digits from position i: its value, its length, the position behind
RECURSIVE loads_digits(_, _, _, _)
loads_digits(s, i, n, k) ==
  IF IsDigit(At(s, i)) THEN loads_digits(s, i + 1, 10 * n + DigitVal(At(s, i)), k + 1)
  ELSE [n |-> n, k |-> k, i |-> i]

\* an int, or a float with one or two digits behind the point
loads_number(s, i) ==
  LET neg   == At(s, i) = "-"
      whole == loads_digits(s, IF neg THEN i + 1 ELSE i, 0, 0)
      frac  == loads_digits(s, whole.i + 1, 0, 0)
      sign  == IF neg THEN -1 ELSE 1
  IN  IF whole.k = 0 THEN Failed(s)
      ELSE IF At(s, whole.i) # "." THEN Parsed(JInt(sign * whole.n), whole.i)
      ELSE IF frac.k = 1 THEN Parsed(JFloat(sign * (100 * whole.n + 10 * frac.n)), frac.i)
      ELSE IF frac.k = 2 THEN Parsed(JFloat(sign * (100 * whole.n + frac.n)), frac.i)
      ELSE Failed(s)

RECURSIVE loads_value(_, _)
RECURSIVE loads_items(_, _, _)
RECURSIVE loads_members(_, _, _)
\* the items of a list from position i, behind "[" or ","
loads_items(s, i, acc) ==
  LET item == loads_value(s, i)
      j    == skip_whitespace(s, item.i)
  IN  IF item.v.t = "error" THEN Failed(s)
      ELSE IF At(s, j) = "," THEN loads_items(s, j + 1, Append(acc, item.v))
      ELSE IF At(s, j) = "]" THEN Parsed(JArr(Append(acc, item.v)), j + 1)
      ELSE Failed(s)

\* the members of a dict from position i, behind "{" or ","
loads_members(s, i, acc) ==
  LET k     == skip_whitespace(s, i)
      key   == loads_str(s, k + 1, <<>>)
      colon == skip_whitespace(s, key.i)
      value == loads_value(s, colon + 1)
      j     == skip_whitespace(s, value.i)
  IN  IF At(s, k) # "\"" \/ key.v.t = "error" \/ At(s, colon) # ":" THEN Failed(s)
      ELSE IF value.v.t = "error" THEN Failed(s)
      ELSE IF At(s, j) = ","
      THEN loads_members(s, j + 1, Append(acc, <<key.v.c, value.v>>))
      ELSE IF At(s, j) = "}"
      THEN Parsed(JObj(Append(acc, <<key.v.c, value.v>>)), j + 1)
      ELSE Failed(s)

loads_value(s, i0) ==
  LET i == skip_whitespace(s, i0)
      c == At(s, i)
      j == skip_whitespace(s, i + 1)
  IN  IF c = "\"" THEN loads_str(s, i + 1, <<>>)
      ELSE IF c = "-" \/ IsDigit(c) THEN loads_number(s, i)
      ELSE IF c = "["
      THEN IF At(s, j) = "]" THEN Parsed(JArr(<<>>), j + 1) ELSE loads_items(s, j, <<>>)
      ELSE IF c = "{"
      THEN IF At(s, j) = "}" THEN Parsed(JObj(<<>>), j + 1) ELSE loads_members(s, j, <<>>)
      ELSE Failed(s)

\* json.loads(text); JError stands for json.JSONDecodeError
loads(s) ==
  LET r == loads_value(s, 1)
  IN  IF r.v.t # "error" /\ skip_whitespace(s, r.i) = Len(s) + 1 THEN r.v ELSE JError

\* parsed_back == final_report on two trees (dicts compared in key order)
RECURSIVE json_equal(_, _)
json_equal(a, b) ==
  /\ a.t = b.t
  /\ a.t # "error"
  /\ IF a.t \in {"int", "float", "str"} THEN a.c = b.c
     ELSE /\ Len(a.c) = Len(b.c)
          /\ \A k \in 1..Len(a.c) :
               IF a.t = "arr" THEN json_equal(a.c[k], b.c[k])
               ELSE a.c[k][1] = b.c[k][1] /\ json_equal(a.c[k][2], b.c[k][2])

\* A list of str as a tree.
str_list(seq) == JArr([k \in 1..Len(seq) |-> JStr(str_content(seq[k]))])

\* f"{x}%" of a metric: "0%" where the metric is the int 0 of a guard
percent_str(h, is_float) ==
  JStr((IF is_float THEN float_chars(h) ELSE int_chars(h)) \o <<"%">>)

\* final_report of a state as a tree.  today_cac, today_roi and profit_change
\* are the int 0 when their guard fails, a rounded float otherwise.
report_tree(st) ==
  LET report == st.final_report
      today  == st.today_data
  IN  JObj(<<
        <<str_content("business_summary"), JObj(<<
           <<str_content("date"), JStr(str_content(report.business_summary.date))>>,
           <<str_content("profit_loss_status"),
             JStr(str_content(report.business_summary.profit_loss_status))>>,
           <<str_content("total_profit"), JInt(report.business_summary.total_profit)>>,
           <<str_content("revenue"), JInt(report.business_summary.revenue)>>,
           <<str_content("cost"), JInt(report.business_summary.cost)>>,
           <<str_content("customers"), JInt(report.business_summary.customers)>> >>)>>,
        <<str_content("key_metrics"), JObj(<<
           <<str_content("cac_today"),
             IF today.customers > 0 THEN JFloat(report.key_metrics.cac_today)
             ELSE JInt(report.key_metrics.cac_today)>>,
           <<str_content("roi_today"),
             IF today.cost > 0 THEN JFloat(report.key_metrics.roi_today)
             ELSE JInt(report.key_metrics.roi_today)>>,
           <<str_content("revenue_change"),
             percent_str(report.key_metrics.revenue_change[1], TRUE)>>,
           <<str_content("cost_change"),
             percent_str(report.key_metrics.cost_change[1], TRUE)>>,
           <<str_content("profit_change"),
             percent_str(report.key_metrics.profit_change[1],
                         st.metrics.yesterday_profit # 0)>>,
           <<str_content("customer_growth"),
             percent_str(report.key_metrics.customer_growth[1], TRUE)>> >>)>>,
        <<str_content("alerts"), str_list(report.alerts)>>,
        <<str_content("recommendations"), str_list(report.recommendations)>>,
        <<str_content("action_priority"), JStr(str_content(report.action_priority))>> >>)

\* ------------------------------------------------------------------ inputs
\* What the user may type at the prompt.
Inputs ==
  { <<>>,
    <<"y","e","s">>, <<" ","Y","\t">>,
    <<"N","o">>,
    <<"m","a","y","b","e">>, <<"y","e","s"," ","o","k">>,
    Jan2024("0","1"), Jan2024("0","5"), Jan2024("0","6"),
    <<" ">> \o Jan2024("0","5") \o <<" ">>,
    <<"2","0","2","4","-","1","3","-","4","5">>,
    <<"E","x","i","t">>,
    <<"s","a","v","e">> }

\* ------------------------------------------------------------------- state
VARIABLES
  state,       \* the State dict of __main__
  g,           \* the channels of the graph during graph.invoke
  pc,          \* "start", "process_input", "analyze", "return", "input", "stopped"
  caller,      \* who called graph.invoke: "initial", "loop" or "direct"
  po,          \* outcome of the oracle call of process_input in this invocation
  ao,          \* outcome of the oracle calls of analyze in this invocation
  error,       \* an exception escaped a graph.invoke
  saved_file,  \* analysis_result.json
  turns,       \* inputs read by the loop so far
  bs,          \* main.py: the BusinessState of the pipeline's graph
  node,        \* main.py: the node to run next; "idle", "done" or "raised"
  ro,          \* main.py: outcome of the oracle call of recommendation_node
  json_str,    \* the text json.dumps made of final_report
  parsed_back  \* what json.loads made of json_str

\* The variables of the serialized report, those of main.py's pipeline with
\* them, and those of the chat.
rvars == <<json_str, parsed_back>>
mvars == <<bs, node, ro, rvars>>
cvars == <<state, g, pc, caller, po, ao, error, saved_file, turns>>

vars == <<state, g, pc, caller, po, ao, error, saved_file, turns, bs, node, ro,
          json_str, parsed_back>>

\* Nothing has been serialized or parsed.
NoTree == [t |-> "none", c |-> <<>>]
ReportIdle ==
  /\ json_str = <<>>
  /\ parsed_back = NoTree

\* The pipeline is not running.
PipelineIdle ==
  /\ bs = InitialBusinessState
  /\ node = "idle"
  /\ ro = "none"
  /\ ReportIdle

Init ==
  /\ state = InitialState
  /\ g = InitialState
  /\ pc = "start"
  /\ caller = "initial"
  /\ po = "none"
  /\ ao = "none"
  /\ error = FALSE
  /\ saved_file = [written |-> FALSE, content |-> EmptyResult]
  /\ turns = 0
  /\ PipelineIdle

\* An exception leaves graph.invoke: the loop's handler prints it and reads
\* the next input with state as it was; outside the loop nothing catches it.
Escapes ==
  /\ error' = TRUE
  /\ pc' = IF caller = "loop" THEN "input" ELSE "stopped"
  /\ UNCHANGED <<state, g>>

\* result = graph.invoke(state) before the loop
Start ==
  /\ pc = "start"
  /\ g' = state
  /\ pc' = "process_input"
  /\ caller' = "initial"
  /\ po' = "none" /\ ao' = "none"
  /\ UNCHANGED <<state, error, saved_file, turns>>
  /\ UNCHANGED mvars

\* The node process_input, followed by the conditional edge route_next.
ProcessInputNode(o) ==
  /\ pc = "process_input"
  /\ po' = IF calls_oracle(g) THEN o ELSE "none"
  /\ IF process_input_raises(g)
     THEN Escapes
     ELSE /\ g' = ApplyUpdate(g, process_input_enhanced(g, o))
          /\ pc' = IF route_next(g') = "analyze" THEN "analyze" ELSE "return"
          /\ UNCHANGED <<state, error>>
  /\ UNCHANGED <<caller, ao, saved_file, turns>>
  /\ UNCHANGED mvars

\* The node analyze, followed by its edge to END.
AnalyzeNode(o, js) ==
  /\ pc = "analyze"
  /\ ao' = o
  /\ IF analyze_raises(g, o)
     THEN Escapes
     ELSE /\ g' = ApplyUpdate(g, analyze_business(g, o, js))
          /\ pc' = "return"
          /\ UNCHANGED <<state, error>>
  /\ UNCHANGED <<caller, po, saved_file, turns>>
  /\ UNCHANGED mvars

\* graph.invoke returns: state.update(result), then the loop's test of "end".
Return ==
  /\ pc = "return"
  /\ state' = g
  /\ pc' = IF g.stage = "end" THEN "stopped" ELSE "input"
  /\ UNCHANGED <<g, caller, po, ao, error, saved_file, turns>>
  /\ UNCHANGED mvars

\* The loop reads an input that is neither an exit word nor a save request
\* and runs the graph on it.
LoopInput(inp) ==
  /\ pc = "input"
  /\ turns < MaxTurns
  /\ lower(inp) \notin ExitTokens
  /\ ~(lower(inp) = SaveToken /\ state.analysis_result # EmptyResult)
  /\ state' = [state EXCEPT !.user_input = inp]
  /\ g' = state'
  /\ pc' = "process_input"
  /\ caller' = "loop"
  /\ po' = "none" /\ ao' = "none"
  /\ turns' = turns + 1
  /\ UNCHANGED <<error, saved_file>>
  /\ UNCHANGED mvars

\* "exit", "quit" or "q": break
LoopExit(inp) ==
  /\ pc = "input"
  /\ turns < MaxTurns
  /\ lower(inp) \in ExitTokens
  /\ pc' = "stopped"
  /\ turns' = turns + 1
  /\ UNCHANGED <<state, g, caller, po, ao, error, saved_file>>
  /\ UNCHANGED mvars

\* "save" with a non-empty analysis_result: save_analysis_to_file, continue
LoopSave(inp) ==
  /\ pc = "input"
  /\ turns < MaxTurns
  /\ lower(inp) \notin ExitTokens
  /\ lower(inp) = SaveToken /\ state.analysis_result # EmptyResult
  /\ saved_file' = [written |-> TRUE, content |-> state.analysis_result]
  /\ turns' = turns + 1
  /\ UNCHANGED <<state, g, pc, caller, po, ao, error>>
  /\ UNCHANGED mvars

\* KeyboardInterrupt at the prompt: break
Interrupt ==
  /\ pc = "input"
  /\ pc' = "stopped"
  /\ UNCHANGED <<state, g, caller, po, ao, error, saved_file, turns>>
  /\ UNCHANGED mvars

\* A caller that holds the compiled graph invokes it again on the state of a
\* session that has reached "end" (as test_dynamic_flow invokes it directly).
InvokeAfterEnd(inp) ==
  /\ pc = "stopped"
  /\ state.stage = "end"
  /\ state' = [state EXCEPT !.user_input = inp]
  /\ g' = state'
  /\ pc' = "process_input"
  /\ caller' = "direct"
  /\ po' = "none" /\ ao' = "none"
  /\ UNCHANGED <<error, saved_file, turns>>
  /\ UNCHANGED mvars

Next ==
  \/ Start
  \/ \E o \in ProcessOracle : ProcessInputNode(o)
  \/ \E o \in AnalysisOracle : \E js \in LLMJson : AnalyzeNode(o, js)
  \/ Return
  \/ \E inp \in Inputs : LoopInput(inp)
  \/ \E inp \in Inputs : LoopExit(inp)
  \/ \E inp \in Inputs : LoopSave(inp)
  \/ Interrupt
  \/ \E inp \in Inputs : InvokeAfterEnd(inp)

Spec == Init /\ [][Next]_vars

\* ------------------------------------------------- direct invocations
\* Inputs for invocations of the compiled graph on a state whose stage and
\* user_input the caller has set (as test_dynamic_flow sets them): every
\* token, in other cases and with surrounding whitespace, and near misses.
WideInputs ==
  { <<>>, <<" "," ">>,
    <<"y","e","s">>, <<"y">>, <<"y","e","a","h">>, <<"s","u","r","e">>,
    <<"Y","E","S">>, <<"Y","e","a","h">>, <<" ","s","u","r","e"," ">>, <<"\t","Y","\n">>,
    <<"n","o">>, <<"n">>, <<"n","o","p","e">>,
    <<"N","O">>, <<"N","o","p","e","\n">>, <<" ","n"," ">>,
    <<"m","a","y","b","e">>, <<"y","e","s"," ","o","k">>, <<"y","e","s","s">>,
    <<"y","e">>, <<"o","k">>, <<"n","o","p">>, <<"n","o"," ","n","o">>,
    <<"y"," ","e","s">>, <<"s","u","r","e","!">>, <<"n","o","t"," ","n","o","w">>,
    Jan2024("0","5") }

\* A session as the loop leaves it in a stage, the date 2024-01-05 selected.
SessionAt(stage) ==
  LET m1 == [AIMessage("fallback", "greeting") EXCEPT !.id = 1]
      m2 == [AIMessage("fallback", "confirm") EXCEPT !.id = 2]
      m3 == [AIMessage("fallback", "start") EXCEPT !.id = 3]
      m4 == [AIMessage("llm", "report") EXCEPT !.id = 4]
  IN  IF stage = "greeting" THEN InitialState
      ELSE IF stage = "confirm_analysis"
      THEN [InitialState EXCEPT !.messages = <<m1, m2>>, !.stage = stage,
                                !.selected_date = Jan2024("0","5")]
      ELSE [InitialState EXCEPT !.messages = <<m1, m2, m3, m4>>, !.stage = stage,
                                !.selected_date = Jan2024("0","5"),
                                !.analysis_result =
                                   CHOOSE r \in LLMJson : r # EmptyResult]

\* state["user_input"] = ...; state["stage"] = ...; graph.invoke(state)
InvokeInit ==
  /\ \E stage \in {"greeting", "confirm_analysis", "complete"} :
       \E inp \in WideInputs :
         state = [SessionAt(stage) EXCEPT !.user_input = inp]
  /\ g = state
  /\ pc = "process_input"
  /\ caller = "direct"
  /\ po = "none"
  /\ ao = "none"
  /\ error = FALSE
  /\ saved_file = [written |-> FALSE, content |-> EmptyResult]
  /\ turns = 0
  /\ PipelineIdle

InvokeNext ==
  \/ \E o \in ProcessOracle : ProcessInputNode(o)
  \/ \E o \in AnalysisOracle : \E js \in LLMJson : AnalyzeNode(o, js)
  \/ Return

SpecInvoke == InvokeInit /\ [][InvokeNext]_vars

\* ------------------------------------------------------ main.py pipeline
\* The chat is not running.
ChatIdle ==
  /\ state = InitialState
  /\ g = InitialState
  /\ pc = "start"
  /\ caller = "initial"
  /\ po = "none"
  /\ ao = "none"
  /\ error = FALSE
  /\ saved_file = [written |-> FALSE, content |-> EmptyResult]
  /\ turns = 0

\* graph.invoke(initial_state) of run_business_analysis, which starts at the
\* node input; or the nodes after input run on a pair of records.
MetricsInit ==
  /\ ChatIdle
  /\ ReportIdle
  /\ ro = "none"
  /\ \/ /\ node = "input"
        /\ bs = InitialBusinessState
     \/ /\ node = "processing"
        /\ \E today \in Records : \E yesterday \in Records :
             bs = [InitialBusinessState EXCEPT !.today_data = today,
                                               !.yesterday_data = yesterday]

InputNode ==
  /\ node = "input"
  /\ bs' = input_node(bs)
  /\ node' = "processing"
  /\ UNCHANGED ro
  /\ UNCHANGED cvars
  /\ UNCHANGED rvars

\* An exception of processing_node leaves graph.invoke.
ProcessingNode ==
  /\ node = "processing"
  /\ IF processing_raises(bs)
     THEN node' = "raised" /\ UNCHANGED bs
     ELSE node' = "analysis" /\ bs' = processing_node(bs)
  /\ UNCHANGED ro
  /\ UNCHANGED cvars
  /\ UNCHANGED rvars

AnalysisNode ==
  /\ node = "analysis"
  /\ bs' = analysis_node(bs)
  /\ node' = "recommendations"
  /\ UNCHANGED ro
  /\ UNCHANGED cvars
  /\ UNCHANGED rvars

\* Faulty variant: the failure of the oracle call is not caught.
RecommendationNode_uncaught(o) ==
  /\ node = "recommendations"
  /\ IF o = "fail"
     THEN node' = "raised" /\ UNCHANGED bs
     ELSE node' = "output" /\ bs' = recommendation_node(bs, o)
  /\ ro' = o
  /\ UNCHANGED cvars
  /\ UNCHANGED rvars

RecommendationNode(o) ==
  /\ node = "recommendations"
  /\ bs' = recommendation_node(bs, o)
  /\ ro' = o
  /\ node' = "output"
  /\ UNCHANGED cvars
  /\ UNCHANGED rvars

OutputNode ==
  /\ node = "output"
  /\ bs' = output_node(bs)
  /\ node' = "done"
  /\ UNCHANGED ro
  /\ UNCHANGED cvars
  /\ UNCHANGED rvars

MetricsNext ==
  \/ InputNode
  \/ ProcessingNode
  \/ AnalysisNode
  \/ \E o \in RecOracle : RecommendationNode(o)
  \/ OutputNode

SpecMetrics == MetricsInit /\ [][MetricsNext]_vars

\* ------------------------------------------- the report, written and read
\* Texts the oracle can return that have fewer than two list-like lines.
OracleTexts == {"llm text", "\"", "\\", "\n"}

ReportToday ==
  [revenue : {80, 120}, cost : {0, 115}, customers : {0, 3}, marketing_cost : {200}]
ReportYesterday ==
  [revenue : {80, 100}, cost : {80}, customers : {3}, marketing_cost : {100}]

\* The pipeline before its node output, on a pair of records and with a
\* response of the oracle.
ReportInit ==
  /\ ChatIdle
  /\ ReportIdle
  /\ node = "output"
  /\ \E today \in ReportToday : \E yesterday \in ReportYesterday :
       \E o \in RecOracle : \E text \in OracleTexts :
         LET st == recommendation_node(
                     analysis_node(processing_node(
                       [InitialBusinessState EXCEPT !.today_data = today,
                                                    !.yesterday_data = yesterday])), o)
         IN  /\ ro = o
             /\ bs = IF o = "text" THEN [st EXCEPT !.recommendations = <<text>>] ELSE st

\* json_str = json.dumps(final_report, indent=2)
DumpReport ==
  /\ node = "done"
  /\ json_str' = dumps(report_tree(bs))
  /\ node' = "dumped"
  /\ UNCHANGED <<bs, ro, parsed_back>>
  /\ UNCHANGED cvars

\* parsed_back = json.loads(json_str)
LoadReport ==
  /\ node = "dumped"
  /\ parsed_back' = loads(json_str)
  /\ node' = "loaded"
  /\ UNCHANGED <<bs, ro, json_str>>
  /\ UNCHANGED cvars

ReportNext ==
  \/ OutputNode
  \/ DumpReport
  \/ LoadReport

SpecReport == ReportInit /\ [][ReportNext]_vars

\* graph.invoke runs each node to its return or its exception, and the edges
\* are unconditional: a node that is due runs.
SpecMetricsLive == SpecMetrics /\ WF_vars(MetricsNext)

\* ================================================================== claims
\* Vocabulary of the claims.  At pc = "return" an invocation of the graph has
\* finished and not yet been stored: state is what the graph was invoked on
\* (with this turn's user_input), g is what it returns.
IsAffirmative(inp) == lower(strip(inp)) \in Affirmative
IsNegative(inp)    == lower(strip(inp)) \in Negative
IsOther(inp)       == ~IsAffirmative(inp) /\ ~IsNegative(inp)

\* The dataset's key of day k of January 2024, and the keys whose previous
\* calendar day is a key too (days 2 to 10).
DayKey(k) == Jan2024(DigitChars[(k \div 10) + 1], DigitChars[(k % 10) + 1])
KeysWithPriorDay == {DayKey(k) : k \in 2..10}

Returned(stage) == pc = "return" /\ state.stage = stage
Appended == Len(g.messages) - Len(state.messages)
LastTopic == g.messages[Len(g.messages)].topic

\* C1: an invocation in confirm_analysis with an affirmative input runs the
\* analysis and returns in stage complete, whatever the oracle does; analysis
\* is never the stage an invocation leaves behind, in g or in state.
C1_AffirmativeRunsAnalysis ==
  /\ (Returned("confirm_analysis") /\ IsAffirmative(state.user_input))
       => (g.stage = "complete" /\ ao # "none")
  /\ pc \in {"return", "input", "stopped"} => g.stage # "analysis"
  /\ state.stage # "analysis"

C1_Witness ==
  /\ Returned("confirm_analysis") /\ IsAffirmative(state.user_input)
  /\ po = "fail" /\ ao = "malformed"
  /\ g.stage = "complete"

\* C2: the stage becomes analysis only in the step of process_input taken in
\* confirm_analysis on an affirmative input.
C2_AnalysisOnlyFromConfirm ==
  [][(g'.stage = "analysis" /\ g.stage # "analysis")
       => (pc = "process_input" /\ g.stage = "confirm_analysis"
           /\ IsAffirmative(g.user_input))]_vars

C2_Witness ==
  /\ pc = "analyze" /\ g.stage = "analysis"
  /\ state.stage = "confirm_analysis" /\ IsAffirmative(state.user_input)

\* C3: in date_selection, an input that is a dataset key whose previous day
\* is a key too moves the stage to confirm_analysis and becomes selected_date.
C3_ValidDateSelected ==
  (Returned("date_selection") /\ state.user_input \in KeysWithPriorDay)
    => (g.stage = "confirm_analysis" /\ g.selected_date = state.user_input)

C3_Witness ==
  /\ Returned("date_selection") /\ state.user_input = DayKey(5)
  /\ g.stage = "confirm_analysis" /\ g.selected_date = DayKey(5)

\* C4 as stated: in date_selection, an input that is not a dataset key, or is
\* a key whose previous day is missing, keeps the stage, emits one error
\* message and leaves selected_date unset.
C4_Original ==
  (Returned("date_selection") /\ state.user_input \notin KeysWithPriorDay)
    => /\ g.stage = "date_selection"
       /\ g.selected_date = <<>>
       /\ Appended = 1
       /\ LastTopic = IF state.user_input \in DOMAIN BUSINESS_DATA
                      THEN "no_previous_day" ELSE "invalid_date"

\* C4 amended: the same of an input that, once its leading and trailing
\* whitespace is trimmed, is not a dataset key or is a key whose previous day
\* is missing.
C4_RejectedDate ==
  (Returned("date_selection") /\ strip(state.user_input) \notin KeysWithPriorDay)
    => /\ g.stage = "date_selection"
       /\ g.selected_date = <<>>
       /\ Appended = 1
       /\ LastTopic = IF strip(state.user_input) \in DOMAIN BUSINESS_DATA
                      THEN "no_previous_day" ELSE "invalid_date"

C4_Witness ==
  /\ Returned("date_selection")
  /\ state.user_input = <<"2","0","2","4","-","1","3","-","4","5">>
  /\ g.stage = "date_selection" /\ g.selected_date = <<>>
  /\ LastTopic = "invalid_date"

\* C5: in confirm_analysis, an input that is neither affirmative nor negative
\* keeps the stage, selected_date and analysis_result and emits one re-prompt.
C5_UnclearConfirm ==
  (Returned("confirm_analysis") /\ IsOther(state.user_input))
    => /\ g.stage = "confirm_analysis"
       /\ g.selected_date = state.selected_date
       /\ g.analysis_result = state.analysis_result
       /\ Appended = 1 /\ LastTopic = "clarify_confirm"
       /\ ao = "none"

C5_Witness ==
  /\ Returned("confirm_analysis")
  /\ state.user_input = <<"m","a","y","b","e">>
  /\ g.stage = "confirm_analysis" /\ g.selected_date # <<>>

\* C6: in confirm_analysis, a negative input moves the stage to
\* date_selection and clears selected_date, and no analysis runs in the turn.
C6_DeclinedConfirm ==
  (Returned("confirm_analysis") /\ IsNegative(state.user_input))
    => /\ g.stage = "date_selection"
       /\ g.selected_date = <<>>
       /\ ao = "none"
       /\ g.analysis_result = state.analysis_result
       /\ Appended = 1 /\ LastTopic = "back"

C6_Witness ==
  /\ Returned("confirm_analysis") /\ IsNegative(state.user_input)
  /\ state.selected_date # <<>>
  /\ g.stage = "date_selection" /\ g.selected_date = <<>>

\* C7: in complete, an affirmative input moves the stage to date_selection
\* and clears selected_date, a negative input moves it to end, any other
\* input keeps the stage and selected_date.
C7_CompleteTransitions ==
  Returned("complete")
    => /\ IsAffirmative(state.user_input)
            => (g.stage = "date_selection" /\ g.selected_date = <<>>)
       /\ IsNegative(state.user_input) => g.stage = "end"
       /\ IsOther(state.user_input)
            => (g.stage = "complete" /\ g.selected_date = state.selected_date)

C7_Witness ==
  /\ Returned("complete") /\ IsAffirmative(state.user_input)
  /\ state.selected_date # <<>>
  /\ g.stage = "date_selection" /\ g.selected_date = <<>>

\* C8: once the stage is end, no invocation changes stage, selected_date,
\* analysis_result or the message list, and the loop reads no further input.
SameSession(a, b) ==
  /\ b.stage = a.stage
  /\ b.selected_date = a.selected_date
  /\ b.analysis_result = a.analysis_result
  /\ b.messages = a.messages

C8_EndIsTerminal ==
  /\ [](state.stage = "end" => pc # "input")
  /\ [][state.stage = "end"
          => (SameSession(state, state') /\ SameSession(state, g') /\ pc' # "input")]_vars

C8_Witness ==
  /\ state.stage = "end" /\ caller = "direct" /\ pc = "stopped"
  /\ IsAffirmative(state.user_input)

\* C9 as stated: every invocation of the graph in a stage other than end
\* appends exactly one assistant message, the turn that runs the analysis
\* included.
C9_OneMessagePerTurn ==
  (pc = "return" /\ state.stage # "end") => Appended = 1

\* C10: in greeting, date_selection, confirm_analysis and complete, every
\* input and every oracle outcome: no exception leaves the invocation, a
\* message is emitted and the stage left behind is one of date_selection,
\* confirm_analysis, complete, end.
C10_NothingFatal ==
  /\ error = FALSE
  /\ (pc = "return"
      /\ state.stage \in {"greeting", "date_selection", "confirm_analysis", "complete"})
       => /\ Appended >= 1
          /\ g.stage \in {"date_selection", "confirm_analysis", "complete", "end"}

C10_Witness ==
  /\ Returned("confirm_analysis")
  /\ po = "fail" /\ ao = "fail_narrative"
  /\ g.stage = "complete" /\ error = FALSE

\* t tenths of a percent, with the percent sign, is the change from b to a
\* rounded to one decimal.
IsPct1f(p, a, b) == p[2] = "%" /\ 2 * Abs(p[1] * b - 1000 * (a - b)) <= b

OracleFailed == ao \in {"fail_narrative", "fail_json"}

\* C11: when the narrative call or the structured-data call of the analysis
\* step fails, nothing escapes the invocation: the turn ends in stage complete
\* with a report message, and the report and analysis_result hold the selected
\* day's profit (revenue - cost), the status given by the sign of the profit,
\* and the revenue and cost changes in percent of the previous day's values.
C11_OracleFailureFallsBack ==
  /\ OracleFailed => error = FALSE
  /\ (Returned("confirm_analysis") /\ OracleFailed) =>
       /\ g.stage = "complete"
       /\ LastTopic = "report"
       /\ \E k \in 2..10 :
            /\ g.selected_date = DayKey(k)
            /\ LET cur    == BUSINESS_DATA[DayKey(k)]
                   prev   == BUSINESS_DATA[DayKey(k - 1)]
                   profit == cur.revenue - cur.cost
                   res    == g.analysis_result
                   body   == g.messages[Len(g.messages)].body
               IN  /\ res.current_profit = profit
                   /\ res.profit_loss_status =
                        (IF profit > 0 THEN "positive" ELSE "negative")
                   /\ res.key_metrics.profit = profit
                   /\ IsPct1f(res.key_metrics.revenue_change, cur.revenue, prev.revenue)
                   /\ IsPct1f(res.key_metrics.cost_change, cur.cost, prev.cost)
                   /\ body.profit = profit
                   /\ body.revenue_change = res.key_metrics.revenue_change
                   /\ body.cost_change = res.key_metrics.cost_change
                   /\ body.insight = (IF profit > 0 THEN "Profitable day"
                                      ELSE "Loss incurred")

C11_Witness ==
  /\ Returned("confirm_analysis")
  /\ ao = "fail_json"
  /\ g.selected_date = DayKey(6)
  /\ g.stage = "complete"
  /\ g.analysis_result.current_profit = -2000
  /\ g.analysis_result.profit_loss_status = "negative"
  /\ g.analysis_result.key_metrics.revenue_change = <<-474, "%">>
  /\ g.analysis_result.key_metrics.cost_change = <<129, "%">>

\* C12: when the structured-data response cannot be parsed, nothing escapes
\* the invocation: the turn ends in stage complete and analysis_result has the
\* status "positive" iff revenue - cost of the selected day is above 0,
\* current_profit equal to that difference, and an alert that records the
\* parse failure.
C12_ParseFailureFallsBack ==
  /\ ao = "malformed" => error = FALSE
  /\ (Returned("confirm_analysis") /\ ao = "malformed") =>
       LET day    == BUSINESS_DATA[g.selected_date]
           profit == day.revenue - day.cost
           res    == g.analysis_result
       IN  /\ g.stage = "complete"
           /\ g.selected_date \in DOMAIN BUSINESS_DATA
           /\ (res.profit_loss_status = "positive") <=> (profit > 0)
           /\ res.profit_loss_status \in {"positive", "negative"}
           /\ res.current_profit = profit
           /\ \E i \in DOMAIN res.alerts :
                res.alerts[i] = "Unable to parse LLM JSON response"

C12_Witness ==
  /\ Returned("confirm_analysis")
  /\ ao = "malformed"
  /\ g.selected_date = DayKey(6)
  /\ g.stage = "complete"
  /\ g.analysis_result.profit_loss_status = "negative"
  /\ g.analysis_result.current_profit = -2000

YesTokens == { <<"y","e","s">>, <<"y">>, <<"y","e","a","h">>, <<"s","u","r","e">> }
NoTokens  == { <<"n","o">>, <<"n">>, <<"n","o","p","e">> }
Normalised == lower(strip(state.user_input))

\* C13: in stages confirm_analysis and complete alike, an input is treated as
\* affirmative exactly when, trimmed and lower-cased, it is one of yes, y,
\* yeah, sure, as negative exactly when it is one of no, n, nope, and as
\* neither in every other case, an input that only contains such a word
\* included.  Affirmative leads to complete (through the analysis) resp.
\* date_selection, negative to date_selection resp. end, neither keeps the stage.
C13_ExactTokenMembership ==
  /\ Returned("confirm_analysis") =>
       /\ (Normalised \in YesTokens) <=> (g.stage = "complete")
       /\ (Normalised \in NoTokens) <=> (g.stage = "date_selection")
       /\ (Normalised \notin YesTokens \cup NoTokens) <=> (g.stage = "confirm_analysis")
  /\ Returned("complete") =>
       /\ (Normalised \in YesTokens) <=> (g.stage = "date_selection")
       /\ (Normalised \in NoTokens) <=> (g.stage = "end")
       /\ (Normalised \notin YesTokens \cup NoTokens) <=> (g.stage = "complete")

C13_Witness ==
  /\ Returned("complete")
  /\ caller = "direct"
  /\ state.user_input = <<"y","e","s"," ","o","k">>
  /\ g.stage = "complete"
  /\ LastTopic = "clarify_complete"

\* C14: an invocation in stage greeting, whatever the input (the empty input
\* included) and whether the greeting oracle call succeeds or fails, returns
\* in stage date_selection with one greeting message appended and
\* selected_date still unset; nothing escapes it.
C14_GreetingAlwaysAdvances ==
  /\ state.stage = "greeting" => error = FALSE
  /\ Returned("greeting") =>
       /\ po \in ProcessOracle
       /\ g.stage = "date_selection"
       /\ Appended = 1
       /\ LastTopic = "greeting"
       /\ g.selected_date = <<>>

C14_Witness ==
  /\ Returned("greeting")
  /\ caller = "direct"
  /\ state.user_input = <<"n","o","p","e">>
  /\ po = "fail"
  /\ g.stage = "date_selection"
  /\ g.selected_date = <<>>

\* processing_node has been called; it has returned a Metrics value.
ProcessingCalled == node \notin {"input", "processing"}
MetricsYielded   == node \in {"analysis", "recommendations", "output", "done"}

\* h hundredths is n / d rounded to two decimals.
IsHundredths(h, n, d) == 2 * Abs(h * d - 100 * n) <= d

\* C15: for every pair of records the Metrics Engine yields a Metrics value
\* with today_profit = today.revenue - today.cost, and profit_status is
\* "positive" iff today_profit > 0 (so "negative" at a profit of 0).
C15_ProfitForEveryPair ==
  ProcessingCalled =>
    /\ MetricsYielded
    /\ bs.metrics.today_profit = bs.today_data.revenue - bs.today_data.cost
    /\ bs.profit_status \in {"positive", "negative"}
    /\ (bs.profit_status = "positive") <=> (bs.metrics.today_profit > 0)

\* C16: the Metrics Engine has no error condition: for every pair of records
\* with non-negative fields, zeros in yesterday's revenue, cost and customers
\* included, it returns a Metrics value, and every percentage change whose
\* denominator is 0 is 0.
C16_NoErrorConditions ==
  ProcessingCalled =>
    /\ MetricsYielded
    /\ bs.yesterday_data.revenue = 0 => bs.metrics.revenue_change = 0
    /\ bs.yesterday_data.cost = 0 => bs.metrics.cost_change = 0
    /\ bs.metrics.yesterday_profit = 0 => bs.metrics.profit_change = 0
    /\ bs.metrics.yesterday_cac = 0 => bs.metrics.cac_change = 0
    /\ bs.yesterday_data.customers = 0 => bs.metrics.customer_growth = 0

\* C17: in the Metrics the engine returns, CAC is 0 whenever customers is 0,
\* for today's record and for yesterday's record independently and whatever
\* marketing_cost is; otherwise it is marketing_cost / customers rounded to
\* two decimals.
C17_ZeroCustomersZeroCac ==
  ProcessingCalled =>
    /\ MetricsYielded
    /\ IF bs.today_data.customers = 0
       THEN bs.metrics.today_cac = 0
       ELSE IsHundredths(bs.metrics.today_cac, bs.today_data.marketing_cost,
                         bs.today_data.customers)
    /\ IF bs.yesterday_data.customers = 0
       THEN bs.metrics.yesterday_cac = 0
       ELSE IsHundredths(bs.metrics.yesterday_cac, bs.yesterday_data.marketing_cost,
                         bs.yesterday_data.customers)

\* C18: in the final report action_priority is "high" iff today_profit <= 0,
\* whatever the alert list holds and however long it is, "medium" iff
\* today_profit > 0 and the alert list is not empty, and "low" iff
\* today_profit > 0 and the alert list is empty.
C18_ActionPriority ==
  node = "done" =>
    LET priority == bs.final_report.action_priority
        profit   == bs.metrics.today_profit
        alerts   == bs.final_report.alerts
    IN  /\ priority \in {"high", "medium", "low"}
        /\ alerts = bs.alerts
        /\ (priority = "high") <=> (profit <= 0)
        /\ (priority = "medium") <=> (profit > 0 /\ alerts # <<>>)
        /\ (priority = "low") <=> (profit > 0 /\ alerts = <<>>)

C18_Witness ==
  /\ node = "done"
  /\ bs.metrics.today_profit <= 0
  /\ Len(bs.final_report.alerts) >= 3
  /\ bs.final_report.action_priority = "high"

AnalysisDone == node \in {"recommendations", "output", "done"}
AlertSet == {bs.alerts[i] : i \in DOMAIN bs.alerts}

C20_CacWarningsExclusive ==
  AnalysisDone =>
    /\ ~("CAC_GROWTH" \in AlertSet /\ "CAC_LEVEL" \in AlertSet)
    /\ (bs.metrics.cac_change > 2000 /\ bs.metrics.today_cac > 5000) =>
         ("CAC_GROWTH" \in AlertSet /\ "CAC_LEVEL" \notin AlertSet)

C20_Witness ==
  /\ AnalysisDone
  /\ bs.metrics.cac_change > 2000
  /\ bs.metrics.today_cac > 5000
  /\ "CAC_GROWTH" \in AlertSet
  /\ "CAC_LEVEL" \notin AlertSet

\* Metrics values on either side of every threshold of analysis_node (the
\* fields the alert rules read), whether or not a pair of records yields them.
ThresholdMetrics ==
  [today_profit   : {-1, 0, 1},
   cac_change     : {2000, 2001},
   today_cac      : {5000, 5001},
   cost_change    : {-2000, -1000, 0, 1, 2000},
   revenue_change : {-1001, -1000, 0, 1, 1500},
   today_roi      : {999, 1000}]

\* C21 as stated: an evaluation returns at most 5 alerts, and some Metrics
\* value makes 5 alerts fire together.
C21_Original ==
  AnalysisDone =>
    /\ Len(bs.alerts) <= 5
    /\ \E m \in ThresholdMetrics : Len(alerts_of(m)) = 5

\* C21 (amended): an evaluation returns at most 4 alerts, for the Metrics of
\* every pair of records and for every Metrics value around the thresholds:
\* the cost-outpacing warning needs revenue_change > 0 and the revenue-drop
\* warning revenue_change < -10, so the two never fire together.
C21_AtMostFourAlerts ==
  /\ AnalysisDone => Len(bs.alerts) <= 4
  /\ \A m \in ThresholdMetrics : Len(alerts_of(m)) <= 4

C21_Witness ==
  /\ AnalysisDone
  /\ bs.alerts = <<"CRITICAL", "CAC_GROWTH", "REVENUE_DROP", "LOW_ROI">>
  /\ \E m \in ThresholdMetrics :
       alerts_of(m) = <<"CRITICAL", "CAC_LEVEL", "COST_OUTPACING", "LOW_ROI">>

RuleOrder ==
  <<"CRITICAL", "CAC_GROWTH", "CAC_LEVEL", "COST_OUTPACING", "REVENUE_DROP", "LOW_ROI">>

\* The rule of a warning holds on the Metrics of the state.
Fires(tag) ==
  LET m == bs.metrics
  IN  CASE tag = "CRITICAL"       -> m.today_profit <= 0
        [] tag = "CAC_GROWTH"     -> m.cac_change > 2000
        [] tag = "CAC_LEVEL"      -> m.cac_change <= 2000 /\ m.today_cac > 5000
        [] tag = "COST_OUTPACING" -> m.cost_change > m.revenue_change /\ m.revenue_change > 0
        [] tag = "REVENUE_DROP"   -> m.revenue_change < -1000
        [] tag = "LOW_ROI"        -> m.today_roi < 1000

\* C22: the alert list is determined by the Metrics alone, elements and order:
\* it is the warnings whose rule holds, in the order critical loss, CAC
\* warning, cost outpacing revenue, revenue drop, low ROI; no later node
\* changes it, and the final report carries it unchanged.
C22_AlertsOrderStable ==
  /\ AnalysisDone => bs.alerts = SelectSeq(RuleOrder, Fires)
  /\ node = "done" => bs.final_report.alerts = SelectSeq(RuleOrder, Fires)

C22_Witness ==
  /\ node = "done"
  /\ bs.alerts = <<"CAC_LEVEL", "COST_OUTPACING", "LOW_ROI">>
  /\ bs.final_report.alerts = bs.alerts

C24_LossSignalsAgree ==
  node = "done" =>
    LET report == bs.final_report
        loss   == bs.today_data.revenue - bs.today_data.cost <= 0
    IN  /\ report.business_summary.total_profit
             = bs.today_data.revenue - bs.today_data.cost
        /\ report.business_summary.profit_loss_status \in {"positive", "negative"}
        /\ loss <=> (report.business_summary.profit_loss_status = "negative")
        /\ loss <=> (\E i \in DOMAIN report.alerts : report.alerts[i] = "CRITICAL")
        /\ loss <=> (report.action_priority = "high")

C24_Witness ==
  /\ node = "done"
  /\ bs.final_report.business_summary.total_profit = 0
  /\ bs.final_report.business_summary.profit_loss_status = "negative"
  /\ bs.final_report.alerts[1] = "CRITICAL"
  /\ bs.final_report.action_priority = "high"

ScenarioA ==
  /\ bs.today_data = [revenue |-> 12000, cost |-> 8000, customers |-> 150,
                      marketing_cost |-> 2000]
  /\ bs.yesterday_data = [revenue |-> 10000, cost |-> 7500, customers |-> 120,
                          marketing_cost |-> 1800]

\* C25: the node input supplies the records of scenario A, and on them the
\* pipeline does not fail and yields today_profit = 4000, today_cac = 13.33,
\* revenue_change = 20.0, today_roi = 50, profit_status "positive", an empty
\* alert list and action_priority "low".
C25_ScenarioA ==
  /\ node # "input" => (ScenarioA \/ bs.today_data \in Records)
  /\ ScenarioA =>
       /\ node # "raised"
       /\ MetricsYielded =>
            /\ bs.metrics.today_profit = 4000
            /\ bs.metrics.today_cac = 1333
            /\ bs.metrics.revenue_change = 2000
            /\ bs.metrics.today_roi = 5000
            /\ bs.profit_status = "positive"
       /\ AnalysisDone => bs.alerts = <<>>
       /\ node = "done" =>
            /\ bs.final_report.action_priority = "low"
            /\ bs.final_report.alerts = <<>>
            /\ bs.final_report.key_metrics.cac_today = 1333
            /\ bs.final_report.key_metrics.roi_today = 5000
            /\ bs.final_report.key_metrics.revenue_change = <<2000, "%">>

C25_Witness ==
  /\ node = "done"
  /\ ScenarioA
  /\ bs.metrics.today_profit = 4000
  /\ bs.final_report.business_summary.profit_loss_status = "positive"
  /\ bs.final_report.action_priority = "low"

\* The edges the graph follows, and the only write of final_report.
PipelineStep ==
  /\ node = "input" => node' = "processing"
  /\ node = "processing" => node' \in {"analysis", "raised"}
  /\ node = "analysis" => node' = "recommendations"
  /\ node = "recommendations" => node' = "output"
  /\ node = "output" => node' = "done"
  /\ node \in {"done", "raised"} => node' = node
  /\ bs'.final_report # bs.final_report => (node = "output" /\ node' = "done")
  /\ node # "done" => bs.final_report = NoReport

ReportComplete ==
  /\ bs.final_report.business_summary.date = "today"
  /\ bs.final_report.business_summary.profit_loss_status \in {"positive", "negative"}
  /\ bs.final_report.key_metrics.revenue_change[2] = "%"
  /\ bs.final_report.alerts = bs.alerts
  /\ bs.final_report.recommendations = bs.recommendations
  /\ bs.final_report.recommendations # <<>>
  /\ bs.final_report.action_priority \in {"high", "medium", "low"}

\* C26: a run started from the empty initial state terminates; the nodes run
\* once each in the order input, processing, analysis, recommendations,
\* output; the run ends with a final_report whose business_summary,
\* key_metrics, alerts, recommendations and action_priority are filled in,
\* whether the oracle call succeeds or fails; only the node output writes
\* final_report.
C26_PipelineTerminates ==
  /\ (node = "input") ~> (node = "done")
  /\ [][PipelineStep]_vars
  /\ [](node = "done" => (ro \in RecOracle /\ ReportComplete))
  /\ [](ScenarioA => node # "raised")

C26_Witness ==
  /\ node = "done"
  /\ ScenarioA
  /\ ro = "fail"
  /\ ReportComplete
  /\ Len(bs.final_report.recommendations) = 5

RecommendationsDone == node \in {"output", "done"}

\* C27: for every outcome of the oracle call (failure, a text with two or
\* more list-like lines, a text with fewer, an empty text) the recommendations
\* of the result are a non-empty sequence of non-empty strings.
C27_RecommendationsNonEmpty ==
  RecommendationsDone =>
    /\ ro \in RecOracle
    /\ bs.recommendations # <<>>
    /\ \A i \in DOMAIN bs.recommendations : bs.recommendations[i] # ""

C29_DateUnsetInDateSelection ==
  /\ state.stage = "date_selection" => state.selected_date = <<>>
  /\ g.stage = "date_selection" => g.selected_date = <<>>
  /\ (Returned("date_selection") /\ g.stage = "date_selection") =>
       state.user_input \notin KeysWithPriorDay

C29_Witness ==
  /\ Returned("complete")
  /\ IsAffirmative(state.user_input)
  /\ state.selected_date = DayKey(5)
  /\ g.stage = "date_selection"
  /\ g.selected_date = <<>>

\* C30: in every state of a session whose stage is confirm_analysis, analysis,
\* complete or end, selected_date is a key of the dataset and so is the
\* calendar day before it, so the two lookups of the analysis step succeed.
C30_SelectedDateHasPriorDay ==
  /\ state.stage \in {"confirm_analysis", "analysis", "complete", "end"} =>
       /\ state.selected_date \in KeysWithPriorDay
       /\ state.selected_date \in DOMAIN BUSINESS_DATA
       /\ prev_date(state.selected_date) \in DOMAIN BUSINESS_DATA
  /\ g.stage \in {"confirm_analysis", "analysis", "complete", "end"} =>
       /\ g.selected_date \in KeysWithPriorDay
       /\ g.selected_date \in DOMAIN BUSINESS_DATA
       /\ prev_date(g.selected_date) \in DOMAIN BUSINESS_DATA

C30_Witness ==
  /\ pc = "analyze"
  /\ g.stage = "analysis"
  /\ g.selected_date = DayKey(6)
  /\ prev_date(g.selected_date) = DayKey(5)
  /\ error = FALSE

\* The channels of the graph with another input in user_input.
WithInput(inp) == [g EXCEPT !.user_input = inp]

\* Two returned dicts name the same next stage and the same update of
\* selected_date (both leave it alone, or both set it to the same value).
SameTransition(a, b) ==
  /\ a.stage = b.stage
  /\ ("selected_date" \in DOMAIN a) <=> ("selected_date" \in DOMAIN b)
  /\ ("selected_date" \in DOMAIN a /\ "selected_date" \in DOMAIN b) =>
       a.selected_date = b.selected_date

\* C31: process_input and process_input_enhanced are the same state machine:
\* on the state a node is entered with, for every input and every outcome of
\* the oracle call, they return the same next stage and the same update of
\* selected_date; when the oracle call fails they return the same message
\* text, and merged into the channels the two dicts give the same state.
C31_ControllersAgree ==
  pc = "process_input" =>
    \A inp \in {g.user_input} \cup WideInputs : \A o \in ProcessOracle :
      LET scripted == process_input(WithInput(inp))
          enhanced == process_input_enhanced(WithInput(inp), o)
      IN  /\ SameTransition(scripted, enhanced)
          /\ Len(scripted.messages) = Len(enhanced.messages)
          /\ o = "fail" =>
               /\ scripted.messages = enhanced.messages
               /\ ApplyUpdate(WithInput(inp), scripted)
                    = ApplyUpdate(WithInput(inp), enhanced)

C31_Witness ==
  /\ pc = "process_input"
  /\ g.stage = "date_selection"
  /\ g.user_input = <<" ">> \o DayKey(5) \o <<" ">>
  /\ process_input(g).stage = "confirm_analysis"
  /\ process_input(g).selected_date = DayKey(5)
  /\ process_input_enhanced(g, "fail") = process_input(g)
  /\ process_input_enhanced(g, "ok").messages # process_input(g).messages

\* The session holds the report message that analyze_business returns
\* together with analysis_result.
HasReport(st) == \E i \in 1..Len(st.messages) : st.messages[i].topic = "report"

\* C32: stage end is reached only after an analysis has completed: a session
\* in stage complete or end holds a report of analyze_business; the stage
\* becomes complete only in a step of the analyze node on stage analysis,
\* which writes analysis_result; and it becomes end only from complete.
C32_EndOnlyAfterAnalysis ==
  /\ [](\A st \in {state, g} : st.stage \in {"complete", "end"} => HasReport(st))
  /\ [][(g'.stage = "complete" /\ g.stage # "complete") =>
          /\ pc = "analyze" /\ g.stage = "analysis"
          /\ \E a \in AnalysisOracle : \E js \in LLMJson :
               /\ ao' = a
               /\ g'.analysis_result = analyze_business(g, a, js).analysis_result
               /\ g'.messages = add_messages(g.messages,
                                             analyze_business(g, a, js).messages)]_vars
  /\ [][(g'.stage = "end" /\ g.stage # "end") =>
          (pc = "process_input" /\ g.stage = "complete" /\ HasReport(g))]_vars

C32_Witness ==
  /\ pc = "return"
  /\ state.stage = "complete"
  /\ g.stage = "end"
  /\ HasReport(g)
  /\ g.analysis_result = llm_fallback(BUSINESS_DATA[g.selected_date],
                                      BUSINESS_DATA[prev_date(g.selected_date)]).json
  /\ LastTopic = "goodbye"

\* C33: on the Metrics of records with non-negative revenue and cost the
\* critical-loss alert never fires alone: when today_profit <= 0, today_roi
\* is <= 0 (0 by the guard when the cost is 0), so the low-ROI alert is in
\* the list with it, and a report of action_priority "high" carries at least
\* two alerts.
C33_CriticalNeverAlone ==
  /\ (AnalysisDone /\ bs.metrics.today_profit <= 0) =>
       /\ bs.today_data.revenue >= 0 /\ bs.today_data.cost >= 0
       /\ bs.metrics.today_roi <= 0
       /\ {"CRITICAL", "LOW_ROI"} \subseteq AlertSet
       /\ Len(bs.alerts) >= 2
  /\ AnalysisDone => bs.alerts # <<"CRITICAL">>
  /\ (node = "done" /\ bs.final_report.action_priority = "high") =>
       /\ Len(bs.final_report.alerts) >= 2
       /\ bs.final_report.alerts[1] = "CRITICAL"
       /\ bs.final_report.alerts[Len(bs.final_report.alerts)] = "LOW_ROI"

C33_Witness ==
  /\ node = "done"
  /\ bs.today_data.cost > bs.today_data.revenue
  /\ bs.metrics.today_profit < 0
  /\ bs.metrics.today_roi < 0
  /\ bs.final_report.alerts = <<"CRITICAL", "LOW_ROI">>
  /\ bs.final_report.action_priority = "high"

\* The guard of the ROI: no cost and no revenue today.
C33_WitnessNoCost ==
  /\ node = "done"
  /\ bs.today_data.cost = 0
  /\ bs.metrics.today_profit = 0
  /\ bs.metrics.today_roi = 0
  /\ bs.final_report.action_priority = "high"

\* C34: the cost-outpacing-revenue caution and the revenue-drop warning are
\* never in the same alert list, of a run or of the report: the first is
\* appended only at revenue_change > 0, the second only at
\* revenue_change < -10; the same holds for every Metrics value around the
\* thresholds (evaluated once, where a run starts).
C34_OutpacingExcludesDrop ==
  /\ AnalysisDone =>
       /\ ~({"COST_OUTPACING", "REVENUE_DROP"} \subseteq AlertSet)
       /\ "COST_OUTPACING" \in AlertSet => bs.metrics.revenue_change > 0
       /\ "REVENUE_DROP" \in AlertSet => bs.metrics.revenue_change < -1000
  /\ node = "done" =>
       ~(\E i, j \in DOMAIN bs.final_report.alerts :
           /\ bs.final_report.alerts[i] = "COST_OUTPACING"
           /\ bs.final_report.alerts[j] = "REVENUE_DROP")
  /\ node = "input" =>
       \A m \in ThresholdMetrics :
         LET alerts == alerts_of(m)
         IN  ~({"COST_OUTPACING", "REVENUE_DROP"}
                 \subseteq {alerts[i] : i \in DOMAIN alerts})

\* The revenue dropped and the cost changed by more than the revenue: only
\* the revenue-drop warning is in the list.
C34_Witness ==
  /\ AnalysisDone
  /\ bs.metrics.revenue_change < -1000
  /\ bs.metrics.cost_change > bs.metrics.revenue_change
  /\ "REVENUE_DROP" \in AlertSet
  /\ "COST_OUTPACING" \notin AlertSet

\* The cost grew faster than a growing revenue: only the caution is there.
C34_WitnessOutpacing ==
  /\ AnalysisDone
  /\ bs.metrics.revenue_change > 0
  /\ bs.metrics.cost_change > bs.metrics.revenue_change
  /\ "COST_OUTPACING" \in AlertSet
  /\ "REVENUE_DROP" \notin AlertSet

====
